---- MODULE Spec2Model ----
(***************************************************************************)
(* Model of the Police Management System server: the startup sequence of   *)
(* startServer (optional module loads, database connection, conditional    *)
(* route registration, frontend selection, background seeding, listen),    *)
(* the Express routing chain it assembles, and the evidence CRUD handlers. *)
(***************************************************************************)
EXTENDS Integers, Sequences, FiniteSets, TLC

VARIABLES
    pc,             \* position of startServer
    nodeEnv,        \* process.env.NODE_ENV
    portValid,      \* whether process.env.PORT parses to a port listen accepts
    loaded,         \* per optional module: "pending" | "failed" | "loaded"
    refs,           \* per optional module: the reference startServer keeps
    mongoConnected, \* startServer's mongoConnected
    connectCalls,   \* number of calls of connectToMongoDB
    stack,          \* the Express router stack, in registration order
    regLog,         \* registrar and setupVite calls made, in order: <<name, outcome>>
    seedPc,         \* position of the setImmediate seeding callback
    seedLog,        \* seeding operations attempted, in order: <<name, outcome>>
    listenCalled,   \* server.listen has been invoked
    serverState,    \* "closed" | "listening" | "error"
    errorHandler,   \* server.on('error') handler attached
    exitCode,       \* -1 while the process runs, else the process.exit status
    lastReq,        \* last HTTP request dispatched through the stack
    lastResp,       \* the response it received
    existing,       \* evidence documents stored before this run (count only)
    evidence,       \* evidence documents inserted in this run, in order
    nextId,         \* next ObjectId the driver generates
    history,        \* evidence handler calls completed, in order
    creating        \* per caller: how far its EvidenceCRUD.create call has come

startVars == <<pc, nodeEnv, portValid, loaded, refs, mongoConnected,
               connectCalls, stack, regLog, listenCalled, serverState,
               errorHandler, exitCode>>
seedVars == <<seedPc, seedLog>>
httpVars == <<lastReq, lastResp>>
dbVars == <<existing, evidence, nextId, history, creating>>
vars == <<startVars, seedVars, httpVars, dbVars>>

----------------------------------------------------------------------------
(* Optional modules and the references startServer keeps to their exports *)

LoadOrder == <<"mongodb-connection", "mongodb-routes", "evidence-routes",
               "custodial-routes", "vite", "seed-geofiles">>

Modules == {LoadOrder[i] : i \in 1..Len(LoadOrder)}

\* outcome of one dynamic import: the file is missing or fails to evaluate,
\* it loads without the expected export, or it loads with it
LoadOutcomes == {"missing", "noexport", "ok"}

\* a gate that only tests for the null a failed import leaves
TruthyNotNull(ref) == ref # "null"

\* JavaScript truthiness of a kept reference
Truthy(ref) == ref = "function"

Features == <<"primary", "evidence", "custodial">>

FeatureModule(f) ==
    CASE f = "primary" -> "mongodb-routes"
      [] f = "evidence" -> "evidence-routes"
      [] f = "custodial" -> "custodial-routes"

----------------------------------------------------------------------------
(* HTTP requests, responses and the Express router stack *)

\* app.get also answers HEAD; cors answers OPTIONS itself and is left out
Methods == {"GET", "HEAD", "POST", "PUT", "DELETE"}

\* the paths requests are drawn from; registered routes may name others
Paths == {"/", "/api/health", "/api/evidence", "/api/extra", "/api/unknown",
          "/uploads/a.jpg"}

\* req.path.startsWith('/api')
StartsWithApi(p) ==
    p \in {"/api/health", "/api/evidence", "/api/extra", "/api/unknown"}

\* req.path.startsWith('/uploads'), also the mount point app.use('/uploads')
StartsWithUploads(p) == p = "/uploads/a.jpg"

\* the route pattern '/api/*'
MatchesApiStar(p) ==
    p \in {"/api/health", "/api/evidence", "/api/extra", "/api/unknown"}

\* what lies outside the server and is decided per request: whether a static
\* directory holds a file for the path, whether the dev asset server answers
Externals == [fileExists : BOOLEAN, viteAnswers : BOOLEAN]

NoRequest == [method |-> "none", path |-> "none"]

\* by: the owner of the layer that answered
Response(status, body, by) == [status |-> status, body |-> body, by |-> by]

NoResponse == Response(0, "none", "none")

\* the handler neither answered nor called next(): the request stays open
Hang(by) == Response(0, "hang", by)

\* a layer that did not match, or that called next()
Pass == Response(0, "next", "none")

\* Express's final handler
FinalHandler == Response(404, "default", "finalhandler")

ServiceUnavailable == Response(503, "service_unavailable", "fallback503")

Layer(kind, owner, methods, paths) ==
    [kind |-> kind, owner |-> owner, methods |-> methods, paths |-> paths]

Middleware(name) == Layer("middleware", name, Methods, Paths)

UploadsStatic == Layer("static", "uploads", Methods, {"/uploads/a.jpg"})

\* a route registered with app.get answers GET and HEAD
RouteMethods(m) == IF m = "GET" THEN {"GET", "HEAD"} ELSE {m}

Route(owner, m, paths) == Layer("route", owner, RouteMethods(m), paths)

\* the app as built before startServer runs
InitialStack ==
    << Middleware("cors"), Middleware("json"), Middleware("urlencoded"),
       Middleware("session"), UploadsStatic >>

\* the routes registerEvidenceRoutes attaches
EvidenceRoutes ==
    << Route("evidence", "GET", {"/api/evidence"}),
       Route("evidence", "GET", {"/api/evidence/e1"}),
       Route("evidence", "POST", {"/api/evidence"}),
       Route("evidence", "PUT", {"/api/evidence/e1"}),
       Route("evidence", "DELETE", {"/api/evidence/e1"}) >>

\* the routes of a registrar defined in another module (mongodb-routes.js,
\* custodial-routes.js, api-routes.js): one resource of its own, every method
ForeignRoutes(owner, path) == << Layer("route", owner, Methods, {path}) >>

FeatureRoutes(f) ==
    CASE f = "primary" -> ForeignRoutes("primary", "/api/cases")
      [] f = "evidence" -> EvidenceRoutes
      [] f = "custodial" -> ForeignRoutes("custodial", "/api/custodial-records")
      [] f = "extra" -> ForeignRoutes("extra", "/api/extra")

HealthRoute == Route("health", "GET", {"/api/health"})

FallbackRoute == Route("fallback503", "GET", {p \in Paths : MatchesApiStar(p)})

ProdStatic == Layer("static", "production", Methods, Paths)

ProdIndex == Route("production", "GET", Paths)

ViteLayer == Layer("vite", "dev", Methods, Paths)

InlinePage == Route("inline", "GET", Paths)

\* a health body that does not read the flag
HealthBodyStale(connected) == "connected"

\* the mongodb field of the health body
HealthBody(connected) == IF connected THEN "connected" ELSE "disconnected"

\* the MongoDB line of the inline status page
InlineBody(connected) == IF connected THEN "page:Connected" ELSE "page:Disconnected"

\* what one layer does with a request it matches
Handle(layer, m, p, connected, ext) ==
    CASE layer.kind = "middleware" -> Pass
      [] layer.kind = "static" ->
            IF m \in {"GET", "HEAD"} /\ ext.fileExists
            THEN Response(200, "file", layer.owner) ELSE Pass
      [] layer.kind = "vite" ->
            IF ext.viteAnswers THEN Response(200, "bundler", "dev") ELSE Pass
      [] layer.kind = "route" /\ layer.owner = "health" ->
            Response(200, HealthBody(connected), "health")
      [] layer.kind = "route" /\ layer.owner = "fallback503" -> ServiceUnavailable
      [] layer.kind = "route" /\ layer.owner = "production" ->
            IF ~StartsWithApi(p)
            THEN Response(200, "index.html", "production") ELSE Hang("production")
      [] layer.kind = "route" /\ layer.owner = "inline" ->
            IF ~StartsWithApi(p) /\ ~StartsWithUploads(p)
            THEN Response(200, InlineBody(connected), "inline") ELSE Hang("inline")
      [] OTHER -> Response(200, "handler", layer.owner)

Matches(layer, m, p) == m \in layer.methods /\ p \in layer.paths

\* Express walks the stack in registration order; the first layer that
\* matches and does not call next() decides the response
RECURSIVE Walk(_, _, _, _, _, _)
Walk(st, i, m, p, connected, ext) ==
    IF i > Len(st) THEN FinalHandler
    ELSE LET r == IF Matches(st[i], m, p)
                  THEN Handle(st[i], m, p, connected, ext) ELSE Pass
         IN IF r = Pass THEN Walk(st, i + 1, m, p, connected, ext) ELSE r

Dispatch(st, m, p, connected, ext) == Walk(st, 1, m, p, connected, ext)

----------------------------------------------------------------------------
(* startServer *)

Running == exitCode = -1

Append2(log, name, outcome) == Append(log, <<name, outcome>>)

StartInit ==
    /\ pc = "load"
    /\ nodeEnv \in {"production", "development"}
    /\ portValid \in BOOLEAN
    /\ loaded = [m \in Modules |-> "pending"]
    /\ refs = [m \in Modules |-> "undefined"]
    /\ mongoConnected = FALSE
    /\ connectCalls = 0
    /\ stack = InitialStack
    /\ regLog = <<>>
    /\ seedPc = "idle"
    /\ seedLog = <<>>
    /\ listenCalled = FALSE
    /\ serverState = "closed"
    /\ errorHandler = FALSE
    /\ exitCode = -1
    /\ lastReq = NoRequest
    /\ lastResp = NoResponse

\* the reference kept after one try { await import(...) } catch { ... = null }
LoadedRef(outcome) ==
    CASE outcome = "missing" -> "null"
      [] outcome = "noexport" -> "undefined"
      [] outcome = "ok" -> "function"

\* a failed import that escaped its try block would reject startServer
AfterLoadUncaught(i, outcome) ==
    IF outcome = "missing" THEN "rejected"
    ELSE IF i = Len(LoadOrder) THEN "connect" ELSE "load"

\* where startServer continues after the i-th import: every outcome,
\* the caught failure included, falls through to the next step
AfterLoad(i, outcome) == IF i = Len(LoadOrder) THEN "connect" ELSE "load"

\* the six guarded dynamic imports, in source order
LoadModule(i) ==
    /\ Running
    /\ pc = "load"
    /\ loaded[LoadOrder[i]] = "pending"
    /\ \A j \in 1..(i - 1) : loaded[LoadOrder[j]] # "pending"
    /\ \E outcome \in LoadOutcomes :
        /\ loaded' = [loaded EXCEPT ![LoadOrder[i]] =
                        IF outcome = "missing" THEN "failed" ELSE "loaded"]
        /\ refs' = [refs EXCEPT ![LoadOrder[i]] = LoadedRef(outcome)]
        /\ pc' = AfterLoad(i, outcome)
    /\ UNCHANGED <<nodeEnv, portValid, mongoConnected, connectCalls, stack,
                   regLog, listenCalled, serverState, errorHandler, exitCode,
                   seedVars, httpVars, dbVars>>

\* a rejected connection that escaped its try block would reject startServer
AfterConnectUncaught(connected) == IF connected THEN "regPrimary" ELSE "rejected"

\* where startServer continues after the connection attempt: the catch
\* block logs and falls through
AfterConnect(connected) == "regPrimary"

\* a connection step that calls whatever reference it holds
CallsConnectUnguarded(ref) == TRUE

\* if (connectToMongoDB): the connector is called when the reference is truthy
CallsConnect(ref) == Truthy(ref)

\* the connection attempt: called only with a connector, its failure caught
ConnectToMongoDB ==
    /\ Running
    /\ pc = "connect"
    /\ IF CallsConnect(refs["mongodb-connection"])
       THEN /\ connectCalls' = connectCalls + 1
            /\ mongoConnected' \in BOOLEAN
       ELSE /\ mongoConnected' = FALSE
            /\ UNCHANGED connectCalls
    /\ pc' = AfterConnect(mongoConnected')
    /\ UNCHANGED <<nodeEnv, portValid, loaded, refs, stack, regLog,
                   listenCalled, serverState, errorHandler, exitCode,
                   seedVars, httpVars, dbVars>>

PcOfFeature(f) ==
    CASE f = "primary" -> "regPrimary"
      [] f = "evidence" -> "regEvidence"
      [] f = "custodial" -> "regCustodial"

PcAfterFeature(f) ==
    CASE f = "primary" -> "regEvidence"
      [] f = "evidence" -> "regCustodial"
      [] f = "custodial" -> "regExtra"

\* a gate that forgot the connection flag
ShouldRegisterWithoutDb(f) == Truthy(refs[FeatureModule(f)])

\* the gate in front of each registrar call
ShouldRegister(f) == mongoConnected /\ Truthy(refs[FeatureModule(f)])

\* a registrar error that escaped its try block would reject startServer
AfterRegistrationThrowUncaught(next) == "rejected"

\* where startServer continues after a registrar call threw: the catch
\* block logs and falls through to the next step
AfterRegistrationThrow(next) == next

\* one guarded registrar call; a registrar that throws is taken to have
\* attached nothing
RegisterFeature(f) ==
    /\ Running
    /\ pc = PcOfFeature(f)
    /\ IF ShouldRegister(f)
       THEN \E outcome \in {"ok", "throws"} :
              /\ regLog' = Append2(regLog, f, outcome)
              /\ stack' = IF outcome = "ok" THEN stack \o FeatureRoutes(f)
                          ELSE stack
              /\ pc' = IF outcome = "ok" THEN PcAfterFeature(f)
                       ELSE AfterRegistrationThrow(PcAfterFeature(f))
       ELSE /\ pc' = PcAfterFeature(f)
            /\ UNCHANGED <<regLog, stack>>
    /\ UNCHANGED <<nodeEnv, portValid, loaded, refs, mongoConnected,
                   connectCalls, listenCalled, serverState, errorHandler,
                   exitCode, seedVars, httpVars, dbVars>>

\* the optional api-routes.js: import and call share one try block
RegisterAdditionalRoutes ==
    /\ Running
    /\ pc = "regExtra"
    /\ \E outcome \in {"missing", "noexport", "ok", "throws"} :
        /\ regLog' = IF outcome \in {"ok", "throws"}
                     THEN Append2(regLog, "extra", outcome) ELSE regLog
        /\ stack' = IF outcome = "ok" THEN stack \o FeatureRoutes("extra")
                    ELSE stack
        /\ pc' = IF outcome = "throws" THEN AfterRegistrationThrow("health")
                 ELSE "health"
    /\ UNCHANGED <<nodeEnv, portValid, loaded, refs, mongoConnected,
                   connectCalls, listenCalled, serverState, errorHandler,
                   exitCode, seedVars, httpVars, dbVars>>

\* the second uploads mount and the health endpoint
RegisterHealth ==
    /\ Running
    /\ pc = "health"
    /\ stack' = stack \o <<UploadsStatic, HealthRoute>>
    /\ pc' = "fallback"
    /\ UNCHANGED <<nodeEnv, portValid, loaded, refs, mongoConnected,
                   connectCalls, regLog, listenCalled, serverState,
                   errorHandler, exitCode, seedVars, httpVars, dbVars>>

\* the layers of the 503 catch-all: app.get('/api/*') when not connected
FallbackLayers(connected) == IF ~connected THEN <<FallbackRoute>> ELSE <<>>

RegisterFallback ==
    /\ Running
    /\ pc = "fallback"
    /\ stack' = stack \o FallbackLayers(mongoConnected)
    /\ pc' = "frontend"
    /\ UNCHANGED <<nodeEnv, portValid, loaded, refs, mongoConnected,
                   connectCalls, regLog, listenCalled, serverState,
                   errorHandler, exitCode, seedVars, httpVars, dbVars>>

\* what setupVite can do: attach its middleware and return, throw before
\* attaching anything, or throw after attaching
ViteOutcomes == {"ok", "throwsEarly", "throwsLate"}

\* the layers frontend selection appends
FrontendLayers(env, vite, outcome) ==
    IF env = "production" THEN <<ProdStatic, ProdIndex>>
    ELSE IF Truthy(vite)
         THEN CASE outcome = "ok" -> <<ViteLayer>>
                [] outcome = "throwsEarly" -> <<InlinePage>>
                [] outcome = "throwsLate" -> <<ViteLayer, InlinePage>>
         ELSE <<InlinePage>>

\* setupVite is called in development when the reference is truthy
CallsSetupVite(env, vite) == env # "production" /\ Truthy(vite)

SelectFrontend ==
    /\ Running
    /\ pc = "frontend"
    /\ \E outcome \in ViteOutcomes :
        /\ stack' = stack \o FrontendLayers(nodeEnv, refs["vite"], outcome)
        /\ regLog' = IF CallsSetupVite(nodeEnv, refs["vite"])
                     THEN Append2(regLog, "vite", outcome) ELSE regLog
    /\ pc' = "seed"
    /\ UNCHANGED <<nodeEnv, portValid, loaded, refs, mongoConnected,
                   connectCalls, listenCalled, serverState,
                   errorHandler, exitCode, seedVars, httpVars, dbVars>>

\* a seeding step that forgot the connection flag
AfterScheduleAlways(connected, current) == "scheduled"

\* if (mongoConnected) setImmediate(...): the callback is queued when
\* connected, and nothing is queued otherwise
AfterSchedule(connected, current) == IF connected THEN "scheduled" ELSE current

\* setImmediate(async () => ...) when connected
ScheduleSeed ==
    /\ Running
    /\ pc = "seed"
    /\ seedPc' = AfterSchedule(mongoConnected, seedPc)
    /\ pc' = "listen"
    /\ UNCHANGED <<nodeEnv, portValid, loaded, refs, mongoConnected,
                   connectCalls, stack, regLog, listenCalled, serverState,
                   errorHandler, exitCode, seedLog, httpVars, dbVars>>

\* server.listen and server.on('error'); listen throws at once on a port
\* it does not accept, and startServer's promise rejects
Listen ==
    /\ Running
    /\ pc = "listen"
    /\ listenCalled' = TRUE
    /\ errorHandler' = portValid
    /\ pc' = IF portValid THEN "done" ELSE "rejected"
    /\ UNCHANGED <<nodeEnv, portValid, loaded, refs, mongoConnected,
                   connectCalls, stack, regLog, serverState, exitCode,
                   seedVars, httpVars, dbVars>>

\* startServer().catch(...)
FatalCatch ==
    /\ Running
    /\ pc = "rejected"
    /\ exitCode' = 1
    /\ UNCHANGED <<pc, nodeEnv, portValid, loaded, refs, mongoConnected,
                   connectCalls, stack, regLog, listenCalled, serverState,
                   errorHandler, seedVars, httpVars, dbVars>>

\* the listen callback: the socket is bound
OnListening ==
    /\ Running
    /\ pc = "done"
    /\ serverState = "closed"
    /\ serverState' = "listening"
    /\ UNCHANGED <<pc, nodeEnv, portValid, loaded, refs, mongoConnected,
                   connectCalls, stack, regLog, listenCalled, errorHandler,
                   exitCode, seedVars, httpVars, dbVars>>

\* the 'error' handler: the bind failed
OnServerError ==
    /\ Running
    /\ pc = "done"
    /\ serverState = "closed"
    /\ errorHandler
    /\ serverState' = "error"
    /\ exitCode' = 1
    /\ UNCHANGED <<pc, nodeEnv, portValid, loaded, refs, mongoConnected,
                   connectCalls, stack, regLog, listenCalled, errorHandler,
                   seedVars, httpVars, dbVars>>

----------------------------------------------------------------------------
(* the background seeding callback *)

\* a callback that could run as soon as startServer has returned
SeedMayStartBeforeListening == pc = "done"

\* the callback runs in the event loop's check phase, once startServer has
\* returned and the nextTick queue has drained; the listen attempt on the
\* literal address 0.0.0.0 settles on that queue, so by then the listen
\* callback has run, or the 'error' handler has ended the process
SeedMayStart == pc = "done" /\ serverState = "listening"

SeedStart ==
    /\ Running
    /\ SeedMayStart
    /\ seedPc = "scheduled"
    /\ seedPc' = IF Truthy(refs["seed-geofiles"]) THEN "geofiles" ELSE "admin"
    /\ UNCHANGED <<startVars, seedLog, httpVars, dbVars>>

\* where the callback continues after await seedGeofiles(): on to the admin
\* block, or into the outer catch, which ends the callback
AfterGeofiles(outcome) == IF outcome = "ok" THEN "admin" ELSE "finished"

SeedGeofiles ==
    /\ Running
    /\ seedPc = "geofiles"
    /\ \E outcome \in {"ok", "throws"} :
        /\ seedLog' = Append2(seedLog, "geofiles", outcome)
        /\ seedPc' = AfterGeofiles(outcome)
    /\ UNCHANGED <<startVars, httpVars, dbVars>>

\* import('./seed-admin.js') and seedAdminUser(), inside the inner try
SeedAdminUser ==
    /\ Running
    /\ seedPc = "admin"
    /\ \E outcome \in {"missing", "ok", "throws"} :
        seedLog' = Append2(seedLog, "admin", outcome)
    /\ seedPc' = "finished"
    /\ UNCHANGED <<startVars, httpVars, dbVars>>

----------------------------------------------------------------------------
(* serving a request *)

\* a request arrives and the stack answers it, or leaves it open
HandleRequest ==
    /\ Running
    /\ serverState = "listening"
    /\ lastReq = NoRequest
    /\ \E m \in Methods, p \in Paths, ext \in Externals :
        /\ lastReq' = [method |-> m, path |-> p]
        /\ lastResp' = Dispatch(stack, m, p, mongoConnected, ext)
    /\ UNCHANGED <<startVars, seedVars, dbVars>>

\* an answered request ends; one left open by its handler never does
CloseRequest ==
    /\ Running
    /\ lastReq # NoRequest
    /\ lastResp.body # "hang"
    /\ lastReq' = NoRequest
    /\ lastResp' = NoResponse
    /\ UNCHANGED <<startVars, seedVars, dbVars>>

----------------------------------------------------------------------------

\* callers that may be inside EvidenceCRUD.create at the same time
Callers == {1, 2}

\* a caller that is not inside a create call
NotCreating == [at |-> "idle", auto |-> FALSE, count |-> 0, number |-> <<>>]

DbIdle ==
    /\ existing = 0
    /\ evidence = <<>>
    /\ nextId = 1
    /\ history = <<>>
    /\ creating = [p \in Callers |-> NotCreating]

Init == StartInit /\ DbIdle

Startup ==
    \/ \E i \in 1..Len(LoadOrder) : LoadModule(i)
    \/ ConnectToMongoDB
    \/ \E i \in 1..Len(Features) : RegisterFeature(Features[i])
    \/ RegisterAdditionalRoutes
    \/ RegisterHealth
    \/ RegisterFallback
    \/ SelectFrontend
    \/ ScheduleSeed
    \/ Listen
    \/ FatalCatch

Events == OnListening \/ OnServerError

Seeding == SeedStart \/ SeedGeofiles \/ SeedAdminUser

Serving == HandleRequest \/ CloseRequest

Next == Startup \/ Events \/ Seeding

\* startServer, the listen events and the background seeding callback
Spec == Init /\ [][Next]_vars

ServeNext == Startup \/ Events \/ Serving

\* startServer, the listen events and request handling.  The seeding callback
\* is left out: it changes seedPc and seedLog only, which no layer reads.
ServeSpec == Init /\ [][ServeNext]_vars

FullNext == Next \/ Serving

\* everything together
FullSpec == Init /\ [][FullNext]_vars

----------------------------------------------------------------------------
(* Evidence CRUD *)

\* width of the zero padding of an evidence number
PadWidth == 6

\* number of evidence handler calls followed in one run
MaxCalls == 3

DigitChars == <<"0", "1", "2", "3", "4", "5", "6", "7", "8", "9">>

\* String(n) for a natural number
RECURSIVE DecimalString(_)
DecimalString(n) ==
    IF n < 10 THEN <<DigitChars[n + 1]>>
    ELSE DecimalString(n \div 10) \o <<DigitChars[(n % 10) + 1]>>

\* str.padStart(width, fill): pads on the left up to width, never truncates
RECURSIVE PadStart(_, _, _)
PadStart(str, width, fill) ==
    IF Len(str) >= width THEN str ELSE PadStart(<<fill>> \o str, width, fill)

\* a numbering that forgot the + 1
EvidenceNumberFromCount(count) ==
    <<"E", "V", "-">> \o PadStart(DecimalString(count), PadWidth, "0")

\* `EV-${String(count + 1).padStart(6, '0')}`
EvidenceNumber(count) ==
    <<"E", "V", "-">> \o PadStart(DecimalString(count + 1), PadWidth, "0")

\* collection.countDocuments()
CountDocuments == existing + Len(evidence)

\* ids a request can name: an ObjectId never stored, a string that is no
\* ObjectId, and the ObjectIds the driver has generated
UnknownId == 0

MalformedId == -1

NoId == -2

IdInputs == {MalformedId, UnknownId} \cup 1..MaxCalls

Stored(id) == \E i \in 1..Len(evidence) : evidence[i]._id = id

\* what a CRUD method taking an id throws: new ObjectId(id) rejects a
\* string that is no ObjectId before the driver is reached
Thrown(id) == IF id = MalformedId THEN "BSONError" ELSE "MongoError"

\* request bodies of POST /api/evidence: which required fields are truthy,
\* and whether an evidenceNumber is supplied
Bodies ==
    [type : BOOLEAN, description : BOOLEAN, location : BOOLEAN,
     evidenceNumber : {<<>>, <<"X", "-", "1">>}]

\* one completed handler call: the response (status, error body, id and
\* number of the document returned) and what the handler's catch block
\* caught, "none" when nothing was thrown
Call(op, status, id, number, auto, error, thrown) ==
    [op |-> op, status |-> status, id |-> id, evidenceNumber |-> number,
     auto |-> auto, error |-> error, thrown |-> thrown, complete |-> TRUE]

\* a validation that looks at the type alone
MissingRequiredTypeOnly(body) == ~body.type

\* if (!type || !description || !location)
MissingRequired(body) == ~body.type \/ ~body.description \/ ~body.location

\* the call of a POST: complete records whether the body held all three
\* required fields
PostCall(body, call) ==
    [call EXCEPT !.complete = body.type /\ body.description /\ body.location]

\* POST /api/evidence: validation, EvidenceCRUD.create, the 201 or the
\* mapped error.  countOk and insert are what the driver does.
PostEvidence(body, countOk, insert) ==
    IF MissingRequired(body)
    THEN /\ history' = Append(history,
                PostCall(body, Call("create", 400, NoId, <<>>, FALSE,
                     "Missing required fields", "none")))
         /\ UNCHANGED <<existing, evidence, nextId>>
    ELSE LET auto == body.evidenceNumber = <<>>
             number == IF auto THEN EvidenceNumber(CountDocuments)
                       ELSE body.evidenceNumber
         IN IF auto /\ ~countOk
            THEN /\ history' = Append(history,
                        PostCall(body, Call("create", 500, NoId, <<>>, auto,
                             "Failed to create evidence", "MongoError")))
                 /\ UNCHANGED <<existing, evidence, nextId>>
            ELSE IF insert = "ok"
            THEN /\ evidence' = Append(evidence,
                        [_id |-> nextId, evidenceNumber |-> number])
                 /\ nextId' = nextId + 1
                 /\ history' = Append(history,
                        PostCall(body,
                            Call("create", 201, nextId, number, auto, "", "none")))
                 /\ UNCHANGED existing
            ELSE /\ history' = Append(history,
                        IF insert = "duplicate"
                        THEN PostCall(body, Call("create", 409, NoId, <<>>, auto,
                                  "Evidence number already exists", "DuplicateKey"))
                        ELSE PostCall(body, Call("create", 500, NoId, <<>>, auto,
                                  "Failed to create evidence", "MongoError")))
                 /\ UNCHANGED <<existing, evidence, nextId>>

\* DELETE /api/evidence/:id: new ObjectId(id) throws on a string that is no
\* ObjectId, deleteOne reports whether a document went
DeleteEvidence(id, driverOk) ==
    IF id = MalformedId \/ ~driverOk
    THEN /\ history' = Append(history,
                Call("delete", 500, id, <<>>, FALSE, "Failed to delete evidence",
                     Thrown(id)))
         /\ UNCHANGED <<existing, evidence, nextId>>
    ELSE IF Stored(id)
    THEN /\ evidence' = SelectSeq(evidence, LAMBDA d : d._id # id)
         /\ history' = Append(history, Call("delete", 200, id, <<>>, FALSE, "", "none"))
         /\ UNCHANGED <<existing, nextId>>
    ELSE /\ history' = Append(history,
                Call("delete", 404, id, <<>>, FALSE, "Evidence not found", "none"))
         /\ UNCHANGED <<existing, evidence, nextId>>

\* the stored document with the given id
Document(id) == evidence[CHOOSE i \in 1..Len(evidence) : evidence[i]._id = id]

\* GET /api/evidence: findAll and the mapped list, or the 500
ListEvidence(driverOk) ==
    /\ history' = Append(history,
            IF driverOk THEN Call("list", 200, NoId, <<>>, FALSE, "", "none")
            ELSE Call("list", 500, NoId, <<>>, FALSE,
                      "Failed to fetch evidence", "MongoError"))
    /\ UNCHANGED <<existing, evidence, nextId>>

\* GET /api/evidence/:id: findById builds new ObjectId(id) inside the try
\* block, so a string that is no ObjectId lands in the catch like a driver
\* failure; findOne returns null for an id that is not stored
GetEvidenceById(id, driverOk) ==
    /\ history' = Append(history,
            IF id = MalformedId \/ ~driverOk
            THEN Call("get", 500, id, <<>>, FALSE,
                      "Failed to fetch evidence", Thrown(id))
            ELSE IF Stored(id)
            THEN Call("get", 200, id, Document(id).evidenceNumber, FALSE, "", "none")
            ELSE Call("get", 404, id, <<>>, FALSE, "Evidence not found", "none"))
    /\ UNCHANGED <<existing, evidence, nextId>>

\* the document after $set of the request body: a supplied evidenceNumber
\* replaces the stored one
SetFields(doc, number) ==
    IF number = <<>> THEN doc ELSE [doc EXCEPT !.evidenceNumber = number]

\* PUT /api/evidence/:id: update (404 unless modifiedCount > 0), then
\* findById for the answer.  modified is FALSE when the matched document
\* already held every value set, updatedAt included; findOk is the second
\* driver call.
PutEvidence(id, number, modified, driverOk, findOk) ==
    IF id = MalformedId \/ ~driverOk
    THEN /\ history' = Append(history,
                Call("update", 500, id, <<>>, FALSE, "Failed to update evidence",
                     Thrown(id)))
         /\ UNCHANGED <<existing, evidence, nextId>>
    ELSE IF ~Stored(id) \/ ~modified
    THEN /\ history' = Append(history,
                Call("update", 404, id, <<>>, FALSE, "Evidence not found", "none"))
         /\ UNCHANGED <<existing, evidence, nextId>>
    ELSE /\ evidence' = [i \in 1..Len(evidence) |->
                            IF evidence[i]._id = id
                            THEN SetFields(evidence[i], number) ELSE evidence[i]]
         /\ history' = Append(history,
                IF findOk
                THEN Call("update", 200, id,
                          SetFields(Document(id), number).evidenceNumber,
                          FALSE, "", "none")
                ELSE Call("update", 500, id, <<>>, FALSE,
                          "Failed to update evidence", "MongoError"))
         /\ UNCHANGED <<existing, nextId>>

\* the request reaches the evidence handler through the stack
RoutedToEvidence(m, p) ==
    /\ Running
    /\ serverState = "listening"
    /\ \A ext \in Externals :
         Dispatch(stack, m, p, mongoConnected, ext).by = "evidence"

PostEvidenceCall ==
    /\ RoutedToEvidence("POST", "/api/evidence")
    /\ Len(history) < MaxCalls
    /\ \E body \in Bodies, countOk \in BOOLEAN,
          insert \in {"ok", "duplicate", "error"} :
         PostEvidence(body, countOk, insert)
    /\ UNCHANGED <<startVars, seedVars, httpVars, creating>>

DeleteEvidenceCall ==
    /\ RoutedToEvidence("DELETE", "/api/evidence/e1")
    /\ Len(history) < MaxCalls
    /\ \E id \in IdInputs, driverOk \in BOOLEAN : DeleteEvidence(id, driverOk)
    /\ UNCHANGED <<startVars, seedVars, httpVars, creating>>

ListEvidenceCall ==
    /\ RoutedToEvidence("GET", "/api/evidence")
    /\ Len(history) < MaxCalls
    /\ \E driverOk \in BOOLEAN : ListEvidence(driverOk)
    /\ UNCHANGED <<startVars, seedVars, httpVars, creating>>

GetEvidenceByIdCall ==
    /\ RoutedToEvidence("GET", "/api/evidence/e1")
    /\ Len(history) < MaxCalls
    /\ \E id \in IdInputs, driverOk \in BOOLEAN : GetEvidenceById(id, driverOk)
    /\ UNCHANGED <<startVars, seedVars, httpVars, creating>>

PutEvidenceCall ==
    /\ RoutedToEvidence("PUT", "/api/evidence/e1")
    /\ Len(history) < MaxCalls
    /\ \E id \in IdInputs, number \in {<<>>, <<"X", "-", "1">>},
          modified \in BOOLEAN, driverOk \in BOOLEAN, findOk \in BOOLEAN :
         /\ (~modified => number = <<>>)
         /\ PutEvidence(id, number, modified, driverOk, findOk)
    /\ UNCHANGED <<startVars, seedVars, httpVars, creating>>

\* the collection may hold documents from earlier runs, up to just under the
\* first count whose number no longer fits the padding
InitialCounts == {0, 1, 10 ^ PadWidth - 2}

\* a state startServer reaches: everything loaded, connected, the three
\* registrars called, production frontend, seeding finished, listening
EvidenceServing ==
    /\ pc = "done"
    /\ nodeEnv = "production"
    /\ portValid = TRUE
    /\ loaded = [m \in Modules |-> "loaded"]
    /\ refs = [m \in Modules |-> "function"]
    /\ mongoConnected = TRUE
    /\ connectCalls = 1
    /\ stack = InitialStack \o FeatureRoutes("primary") \o FeatureRoutes("evidence")
                 \o FeatureRoutes("custodial") \o <<UploadsStatic, HealthRoute>>
                 \o FallbackLayers(TRUE)
                 \o FrontendLayers("production", "function", "ok")
    /\ regLog = << <<"primary", "ok">>, <<"evidence", "ok">>, <<"custodial", "ok">> >>
    /\ seedPc = "finished"
    /\ seedLog = << <<"geofiles", "ok">>, <<"admin", "ok">> >>
    /\ listenCalled = TRUE
    /\ serverState = "listening"
    /\ errorHandler = TRUE
    /\ exitCode = -1
    /\ lastReq = NoRequest
    /\ lastResp = NoResponse

EvidenceInit ==
    /\ EvidenceServing
    /\ existing \in InitialCounts
    /\ evidence = <<>>
    /\ nextId = 1
    /\ history = <<>>
    /\ creating = [p \in Callers |-> NotCreating]

EvidenceNext ==
    \/ ListEvidenceCall
    \/ GetEvidenceByIdCall
    \/ PostEvidenceCall
    \/ PutEvidenceCall
    \/ DeleteEvidenceCall

\* the evidence handlers, one call after the other, on a serving process
EvidenceSpec == EvidenceInit /\ [][EvidenceNext]_vars

----------------------------------------------------------------------------
(* EvidenceCRUD.create and EvidenceCRUD.delete, await by await *)

\* number of documents inserted in one run
MaxCreates == 3

\* evidenceData.evidenceNumber as the caller passes it: absent, or a number
\* of the caller's own that is no generated one
SuppliedNumbers == {<<>>, <<"X", "-", "1">>}

Busy(p) == creating[p].at # "idle"

\* create up to its first await: without a supplied number the count is
\* read and the number built from it; a countDocuments that rejects ends
\* the call with nothing changed
CreateCount(p, supplied) ==
    /\ RoutedToEvidence("POST", "/api/evidence")
    /\ ~Busy(p)
    /\ nextId + Cardinality({q \in Callers : Busy(q)}) <= MaxCreates
    /\ creating' = [creating EXCEPT ![p] =
            IF supplied = <<>>
            THEN [at |-> "insert", auto |-> TRUE, count |-> CountDocuments,
                  number |-> EvidenceNumber(CountDocuments)]
            ELSE [at |-> "insert", auto |-> FALSE, count |-> 0,
                  number |-> supplied]]
    /\ UNCHANGED <<startVars, seedVars, httpVars, existing, evidence,
                   nextId, history>>

\* a create that counted again when inserting
InsertNumberRecounted(p) ==
    IF creating[p].auto THEN EvidenceNumber(CountDocuments)
    ELSE creating[p].number

\* the evidenceNumber insertOne stores: the one set before the await
InsertNumber(p) == creating[p].number

\* create from insertOne on: the document is stored with the driver's new
\* id, or insertOne rejects and the call ends with nothing stored
CreateInsert(p, insertOk) ==
    /\ creating[p].at = "insert"
    /\ IF insertOk
       THEN /\ evidence' = Append(evidence,
                    [_id |-> nextId, evidenceNumber |-> InsertNumber(p)])
            /\ nextId' = nextId + 1
       ELSE UNCHANGED <<evidence, nextId>>
    /\ creating' = [creating EXCEPT ![p] = NotCreating]
    /\ UNCHANGED <<startVars, seedVars, httpVars, existing, history>>

\* delete: one deleteOne; a malformed id or a rejecting driver throws with
\* nothing removed, an id that is not stored removes nothing
Delete(id, driverOk) ==
    /\ RoutedToEvidence("DELETE", "/api/evidence/e1")
    /\ evidence' = IF id = MalformedId \/ ~driverOk THEN evidence
                   ELSE SelectSeq(evidence, LAMBDA d : d._id # id)
    /\ UNCHANGED <<startVars, seedVars, httpVars, existing, nextId,
                   history, creating>>

CreateCountStep == \E p \in Callers, supplied \in SuppliedNumbers : CreateCount(p, supplied)

CreateInsertStep == \E p \in Callers, insertOk \in BOOLEAN : CreateInsert(p, insertOk)

DeleteStep == \E id \in IdInputs, driverOk \in BOOLEAN : Delete(id, driverOk)

CrudNext == CreateCountStep \/ CreateInsertStep \/ DeleteStep

\* create and delete calls of concurrent requests, interleaved at their awaits
CrudSpec == EvidenceInit /\ [][CrudNext]_vars

\* no call is in progress
NoneBusy == \A p \in Callers : ~Busy(p)

SequentialNext ==
    \/ NoneBusy /\ CreateCountStep
    \/ CreateInsertStep
    \/ NoneBusy /\ DeleteStep

\* the same calls one after the other: a call starts only when no other
\* call is in progress
SequentialSpec == EvidenceInit /\ [][SequentialNext]_vars

\* the scheduling of startServer and of the listen events: the event loop
\* resumes startServer after every await (each awaited call settles) and the
\* listen attempt ends in the callback or in an 'error' event
LiveSpec == Spec /\ WF_vars(Startup) /\ WF_vars(Events)

----------------------------------------------------------------------------
(* Reading the state *)

PcOrder == <<"load", "connect", "regPrimary", "regEvidence", "regCustodial",
             "regExtra", "health", "fallback", "frontend", "seed", "listen",
             "done">>

\* position of a step in startServer; a rejected startServer has left them all
PcRank(p) ==
    IF \E i \in 1..Len(PcOrder) : PcOrder[i] = p
    THEN CHOOSE i \in 1..Len(PcOrder) : PcOrder[i] = p
    ELSE Len(PcOrder) + 1

\* startServer has gone past step p without rejecting
Past(p) == pc # "rejected" /\ PcRank(pc) > PcRank(p)

Invoked(name) == \E i \in 1..Len(regLog) : regLog[i][1] = name

Threw(name) == \E i \in 1..Len(regLog) : regLog[i] = <<name, "throws">>

HasLayer(owner) == \E i \in 1..Len(stack) : stack[i].owner = owner

\* the frontend strategies that have handlers on the stack
Strategies ==
    {o \in {"production", "dev", "inline"} : HasLayer(o)}

\* the listen attempt failed: a port listen rejects, or an 'error' event
ListenFailed == listenCalled /\ (~portValid \/ serverState = "error")

SeedAttempted(name) == \E i \in 1..Len(seedLog) : seedLog[i][1] = name

SeedThrew(name) == \E i \in 1..Len(seedLog) : seedLog[i] = <<name, "throws">>

----------------------------------------------------------------------------
(* Claims about startup *)

\* C1: whichever of the optional modules fail to load, startServer does not
\* reject and the process does not exit unless the listen attempt itself
\* failed, and startup goes on until the server listens or the listen
\* attempt has failed.
C1_LoadFailuresNotFatal ==
    /\ []((pc = "rejected" \/ exitCode # -1) => ListenFailed)
    /\ <>(serverState = "listening" \/ ListenFailed)

\* all six optional modules failed to load and the server listens
C1_Witness ==
    /\ \A m \in Modules : loaded[m] = "failed"
    /\ serverState = "listening"
    /\ exitCode = -1

\* C2 as stated: past its registration step, a feature's registrar has been
\* invoked iff the feature's module loaded and the database connected.
C2_Original ==
    \A i \in 1..Len(Features) :
        Past(PcOfFeature(Features[i])) =>
            (Invoked(Features[i]) <=>
                (loaded[FeatureModule(Features[i])] = "loaded" /\ mongoConnected))

\* C2 amended: a feature's registrar is never invoked before its step, and
\* past its step it has been invoked iff the module loaded with its
\* registration export and the database connected.
C2_RegisteredIffExportAndConnected ==
    \A i \in 1..Len(Features) :
        /\ Invoked(Features[i]) => PcRank(pc) > PcRank(PcOfFeature(Features[i]))
        /\ Past(PcOfFeature(Features[i])) =>
            (Invoked(Features[i]) <=>
                (/\ loaded[FeatureModule(Features[i])] = "loaded"
                 /\ refs[FeatureModule(Features[i])] = "function"
                 /\ mongoConnected))

\* connected; evidence registered; custodial loaded without its export and
\* was not registered
C2_Witness ==
    /\ pc = "done"
    /\ mongoConnected
    /\ Invoked("evidence")
    /\ loaded["custodial-routes"] = "loaded"
    /\ ~Invoked("custodial")
    /\ loaded["mongodb-routes"] = "failed"
    /\ ~Invoked("primary")

\* C5 as stated: after frontend selection exactly one strategy has handlers
\* registered, and when setupVite threw it is the inline page alone.
C5_Original ==
    Past("frontend") =>
        /\ Cardinality(Strategies) = 1
        /\ (Invoked("vite") /\ ~(<<"vite", "ok">> \in {regLog[i] : i \in 1..Len(regLog)})
              => Strategies = {"inline"})

\* C6: when a registrar call threw, startServer did not reject for it, and
\* once startServer has run to its end every later registrar whose gate was
\* open has been called, the health endpoint and (when not connected) the
\* catch-all are registered, a frontend is selected and listen was invoked.
C6_RegistrationThrowIsolated ==
    (\E n \in {"primary", "evidence", "custodial", "extra"} : Threw(n)) =>
        /\ pc = "rejected" => listenCalled
        /\ pc \in {"done", "rejected"} =>
            /\ \A i \in 1..Len(Features) :
                 (mongoConnected /\ refs[FeatureModule(Features[i])] = "function")
                     => Invoked(Features[i])
            /\ HasLayer("health")
            /\ ~mongoConnected => HasLayer("fallback503")
            /\ Strategies # {}
            /\ listenCalled

\* the primary registrar threw; evidence and custodial were still called and
\* the server listens
C6_Witness ==
    /\ Threw("primary")
    /\ Invoked("evidence")
    /\ Invoked("custodial")
    /\ HasLayer("health")
    /\ serverState = "listening"

\* C7 as stated: once the seeding callback has finished, both seeding
\* operations the callback is to run have been attempted, whatever either
\* one threw, and the process has not exited for it.
C7_Original ==
    seedPc = "finished" =>
        /\ SeedAttempted("admin")
        /\ Truthy(refs["seed-geofiles"]) => SeedAttempted("geofiles")
        /\ exitCode # -1 => ListenFailed

\* C9: the process exits only with status 1 and only after the listen
\* attempt failed; load, connection, registration, setupVite and seeding
\* failures leave it running.
C9_ExitOnlyOnListenFailure ==
    /\ exitCode \in {-1, 1}
    /\ exitCode = 1 => ListenFailed

\* a failed load, a rejected connection and a registrar that threw were all
\* absorbed; the bind error then ended the process
C9_Witness ==
    /\ exitCode = 1
    /\ serverState = "error"
    /\ loaded["vite"] = "failed"
    /\ connectCalls = 1
    /\ Threw("extra")

----------------------------------------------------------------------------
(* Claims about the assembled routes *)

Request(m, p) == [method |-> m, path |-> p]

\* a feature route or the health route matches the request
RouteMatches(m, p) ==
    \E i \in 1..Len(stack) :
        /\ stack[i].kind = "route"
        /\ stack[i].owner \in {"primary", "evidence", "custodial", "extra", "health"}
        /\ Matches(stack[i], m, p)

\* C3 as stated: when not connected, a request of any method to a path under
\* /api that no earlier route matches is answered with the fixed 503.
C3_Original ==
    (/\ lastReq # NoRequest
     /\ ~mongoConnected
     /\ MatchesApiStar(lastReq.path)
     /\ ~RouteMatches(lastReq.method, lastReq.path))
        => lastResp = ServiceUnavailable

\* C4 as stated: when connected, the health endpoint reports "connected", no
\* 503 catch-all is registered, and a request to an API path that no
\* registered route matches is answered with the default 404.
C4_Original ==
    (mongoConnected /\ lastReq # NoRequest) =>
        /\ ~HasLayer("fallback503")
        /\ lastReq = Request("GET", "/api/health")
              => (lastResp.status = 200 /\ lastResp.body = "connected")
        /\ (MatchesApiStar(lastReq.path)
              /\ ~RouteMatches(lastReq.method, lastReq.path))
              => lastResp = FinalHandler

\* C8: the health route is on the stack once its step has run, whatever the
\* flags; GET /api/health is answered by it with 200 and mongodb "connected"
\* iff mongoConnected; when not connected the health route stands ahead of
\* the 503 catch-all, and GET /api/evidence is answered with the 503.
C8_HealthAlwaysAnswers ==
    /\ Past("health") => HasLayer("health")
    /\ lastReq = Request("GET", "/api/health") =>
        /\ lastResp.status = 200
        /\ lastResp.by = "health"
        /\ lastResp.body = (IF mongoConnected THEN "connected" ELSE "disconnected")
    /\ (~mongoConnected /\ Past("fallback")) =>
        /\ HasLayer("fallback503")
        /\ \A i, j \in 1..Len(stack) :
             (stack[i].owner = "health" /\ stack[j].owner = "fallback503") => i < j
    /\ (~mongoConnected /\ lastReq = Request("GET", "/api/evidence")) =>
        lastResp = ServiceUnavailable

\* fallback mode: GET /api/health answered 200 "disconnected" with the 503
\* catch-all registered behind it
C8_Witness ==
    /\ ~mongoConnected
    /\ HasLayer("fallback503")
    /\ lastReq = Request("GET", "/api/health")
    /\ lastResp = Response(200, "disconnected", "health")

----------------------------------------------------------------------------
(* Claims about evidence creation *)

\* the value of a character of a decimal numeral
DigitValue(c) == (CHOOSE d \in 1..10 : DigitChars[d] = c) - 1

IsDigit(c) == \E d \in 1..10 : DigitChars[d] = c

\* the number a decimal numeral denotes
RECURSIVE NumeralValue(_)
NumeralValue(str) ==
    IF str = <<>> THEN 0
    ELSE 10 * NumeralValue(SubSeq(str, 1, Len(str) - 1)) + DigitValue(str[Len(str)])

\* an evidence number is "EV-" followed by a decimal numeral
WellFormed(number) ==
    /\ Len(number) > 3
    /\ SubSeq(number, 1, 3) = <<"E", "V", "-">>
    /\ \A k \in 4..Len(number) : IsDigit(number[k])

Suffix(number) == SubSeq(number, 4, Len(number))

\* a 201 answer to a POST that supplied no evidenceNumber
AutoCreated(call) == call.op = "create" /\ call.status = 201 /\ call.auto

\* the answer carries an id, the document stored last carries the same id
\* and number, and the number's value is the count before the insert plus one
NumberedByCount(i) ==
    /\ history[i].id # NoId
    /\ WellFormed(history[i].evidenceNumber)
    /\ i = Len(history) =>
        /\ evidence # <<>>
        /\ evidence[Len(evidence)] =
             [_id |-> history[i].id, evidenceNumber |-> history[i].evidenceNumber]
        /\ NumeralValue(Suffix(history[i].evidenceNumber)) = CountDocuments
    /\ (i < Len(history) /\ AutoCreated(history[i + 1])) =>
        NumeralValue(Suffix(history[i + 1].evidenceNumber))
            = NumeralValue(Suffix(history[i].evidenceNumber)) + 1

\* C10 as stated: a successful creation without a supplied number answers
\* 201 with an id and "EV-" followed by six digits whose value is the
\* document count plus one, and of two such creations in a row the second
\* number is one greater.
C10_Original ==
    \A i \in 1..Len(history) :
        AutoCreated(history[i]) =>
            /\ NumberedByCount(i)
            /\ Len(Suffix(history[i].evidenceNumber)) = PadWidth

\* C10 amended: the same, with the digits being the decimal numeral of the
\* count plus one padded with zeros to six digits: exactly six while the
\* count plus one is below 10^6, and the numeral's own length from there on.
C10_NumberedByCountPadded ==
    \A i \in 1..Len(history) :
        AutoCreated(history[i]) =>
            /\ NumberedByCount(i)
            /\ Len(Suffix(history[i].evidenceNumber)) >= PadWidth
            /\ Len(Suffix(history[i].evidenceNumber)) = PadWidth
                 <=> NumeralValue(Suffix(history[i].evidenceNumber)) < 10 ^ PadWidth
            /\ Len(Suffix(history[i].evidenceNumber)) > PadWidth
                 => history[i].evidenceNumber[4] # "0"

\* two creations in a row, EV-999999 and then the seven-digit EV-1000000
C10_Witness ==
    /\ Len(history) >= 2
    /\ AutoCreated(history[1])
    /\ AutoCreated(history[2])
    /\ history[1].evidenceNumber = <<"E", "V", "-", "9", "9", "9", "9", "9", "9">>
    /\ Len(Suffix(history[2].evidenceNumber)) = PadWidth + 1

----------------------------------------------------------------------------
(* Claims about the evidence handlers *)

\* the call answered last
LastCall == history[Len(history)]

\* C11 as stated: GET /api/evidence/:id with an id that names no stored
\* document, whatever its form, is answered 404 {error: "Evidence not
\* found"} and never 500, as long as the database itself works.
C11_Original ==
    (/\ history # <<>>
     /\ LastCall.op = "get"
     /\ ~Stored(LastCall.id)
     /\ LastCall.thrown # "MongoError")
        => (LastCall.status = 404 /\ LastCall.error = "Evidence not found")

----------------------------------------------------------------------------
(* Claims about the order of startup *)

\* C12: connectToMongoDB is called at most once, and only with the connector
\* module loaded and exporting it; mongoConnected is set by that call alone;
\* a rejected call leaves mongoConnected false and startServer goes on to the
\* first registration step instead of rejecting; and nothing is registered
\* while the connection step is still ahead.
C12_ConnectOnceBeforeRoutes ==
    /\ [](/\ connectCalls <= 1
          /\ connectCalls = 1 =>
                /\ loaded["mongodb-connection"] = "loaded"
                /\ refs["mongodb-connection"] = "function"
          /\ mongoConnected => connectCalls = 1
          /\ PcRank(pc) <= PcRank("connect") =>
                /\ connectCalls = 0
                /\ ~mongoConnected
                /\ regLog = <<>>
                /\ stack = InitialStack
          /\ pc = "rejected" => listenCalled)
    /\ [][connectCalls' # connectCalls =>
            /\ pc = "connect"
            /\ pc' = "regPrimary"
            /\ connectCalls' = connectCalls + 1]_vars
    /\ [][mongoConnected' # mongoConnected => connectCalls' # connectCalls]_vars

\* the connector was called once and rejected; startup went on in fallback
\* mode and the server listens
C12_Witness ==
    /\ connectCalls = 1
    /\ ~mongoConnected
    /\ HasLayer("fallback503")
    /\ serverState = "listening"

\* the startup phase a state is in.  A startServer that rejected, or a bind
\* that failed, stays in the last phase entered.
Phase ==
    IF seedPc \in {"geofiles", "admin", "finished"} THEN "Seeding"
    ELSE IF serverState = "listening" THEN "Listening"
    ELSE CASE pc = "load" -> "Loading"
           [] pc = "connect" -> "Connecting"
           [] pc \in {"regPrimary", "regEvidence", "regCustodial", "regExtra",
                      "health", "fallback"} ->
                 IF mongoConnected THEN "Connected" ELSE "Disconnected"
           [] pc = "frontend" -> "RoutesAssembled"
           [] OTHER -> "FrontendSelected"

\* position of a phase in Loading, Connecting, Connected-or-Disconnected,
\* RoutesAssembled, FrontendSelected, Listening, Seeding
PhaseNo(ph) ==
    CASE ph = "Loading" -> 1
      [] ph = "Connecting" -> 2
      [] ph \in {"Connected", "Disconnected"} -> 3
      [] ph = "RoutesAssembled" -> 4
      [] ph = "FrontendSelected" -> 5
      [] ph = "Listening" -> 6
      [] ph = "Seeding" -> 7

\* every step stays in its phase or enters the next one: the order is
\* fixed, no phase is skipped and none is entered a second time
PhasesInOrder ==
    /\ [][PhaseNo(Phase') \in {PhaseNo(Phase), PhaseNo(Phase) + 1}]_vars
    /\ [][(Phase \in {"Connected", "Disconnected"}
             /\ PhaseNo(Phase') = PhaseNo(Phase)) => Phase' = Phase]_vars
    /\ [](Phase = "Seeding" => mongoConnected)

\* C13 as stated: the phases occur in the fixed order, seeding (only when
\* connected) after Listening, none is re-entered, and each one, Listening
\* included, is entered in every run.
C13_Original ==
    /\ PhasesInOrder
    /\ <>(PhaseNo(Phase) >= 6)

\* C13 amended: the phases occur in the fixed order, seeding (only when
\* connected) after Listening, each is entered at most once and none is
\* re-entered; every run enters the phases up to FrontendSelected, and
\* enters Listening unless the listen attempt fails.
C13_PhasesInOrderUnlessListenFails ==
    /\ PhasesInOrder
    /\ <>(PhaseNo(Phase) >= 5)
    /\ <>(PhaseNo(Phase) >= 6 \/ ListenFailed)
    /\ [](ListenFailed => PhaseNo(Phase) = 5)

\* connected, listening, and the seeding callback is running
C13_Witness ==
    /\ Phase = "Seeding"
    /\ seedPc = "geofiles"
    /\ mongoConnected
    /\ serverState = "listening"

----------------------------------------------------------------------------
(* Claims about background seeding *)

\* how far the seeding callback has come
SeedRank(p) ==
    CASE p = "idle" -> 0
      [] p = "scheduled" -> 1
      [] p = "geofiles" -> 2
      [] p = "admin" -> 3
      [] p = "finished" -> 4

\* C14: the seeding callback is scheduled iff mongoConnected; it runs at
\* most once (it only moves forward and attempts each operation at most
\* once); its body starts only after server.listen was invoked; and neither
\* the listen call nor the listen callback waits for it: both happen with
\* the callback not yet started, and requests are answered while it runs.
C14_SeedingOnceAfterListen ==
    /\ [](/\ PcRank(pc) <= PcRank("seed") => seedPc = "idle"
          /\ PcRank(pc) > PcRank("seed") => (seedPc # "idle" <=> mongoConnected)
          /\ SeedRank(seedPc) >= 2 => listenCalled
          /\ \A i, j \in 1..Len(seedLog) : seedLog[i][1] = seedLog[j][1] => i = j)
    /\ [][seedPc' # seedPc => SeedRank(seedPc') > SeedRank(seedPc)]_vars
    /\ [][(seedPc = "idle" /\ seedPc' # "idle") =>
            (pc = "seed" /\ seedPc' = "scheduled")]_vars
    /\ [][listenCalled' # listenCalled => (SeedRank(seedPc) <= 1 /\ seedPc' = seedPc)]_vars
    /\ [][serverState' # serverState => (SeedRank(seedPc) <= 1 /\ seedPc' = seedPc)]_vars

\* a request was answered while seedGeofiles was still running
C14_Witness ==
    /\ seedPc = "geofiles"
    /\ seedLog = <<>>
    /\ lastReq = Request("GET", "/api/health")
    /\ lastResp = Response(200, "connected", "health")

----------------------------------------------------------------------------
(* Claims about modules without their export *)

\* the module loaded, and the export startServer reads from it is absent
LoadedWithoutExport(m) == loaded[m] = "loaded" /\ refs[m] = "undefined"

\* the import is over and left nothing to call: it failed, or the module
\* loaded without its export
Unavailable(m) == loaded[m] = "failed" \/ LoadedWithoutExport(m)

\* C16: a module that loaded without its expected export has, in every
\* state, the effects of one that failed to load: no connector call and
\* mongoConnected false, no registrar call and none of the feature's routes,
\* no setupVite call and the frontend chosen as without the dev server, no
\* seedGeofiles call; every gate gives the same answer for the two kept
\* references; and startServer rejects or the process exits only after the
\* listen attempt failed.
C16_NoExportAsMissing ==
    /\ \A m \in Modules :
         /\ LoadedWithoutExport(m) => refs[m] # "function"
         /\ loaded[m] = "failed" => refs[m] = "null"
    /\ (Unavailable("mongodb-connection") /\ Past("connect")) =>
         (connectCalls = 0 /\ ~mongoConnected)
    /\ \A i \in 1..Len(Features) :
         Unavailable(FeatureModule(Features[i])) =>
            (~Invoked(Features[i]) /\ ~HasLayer(Features[i]))
    /\ Unavailable("vite") =>
         /\ ~Invoked("vite")
         /\ ~HasLayer("dev")
         /\ Past("frontend") =>
              Strategies = {IF nodeEnv = "production" THEN "production" ELSE "inline"}
    /\ Unavailable("seed-geofiles") =>
         (~SeedAttempted("geofiles") /\ seedPc # "geofiles")
    /\ CallsConnect(LoadedRef("noexport")) = CallsConnect(LoadedRef("missing"))
    /\ \A o \in ViteOutcomes :
         /\ CallsSetupVite(nodeEnv, LoadedRef("noexport"))
              = CallsSetupVite(nodeEnv, LoadedRef("missing"))
         /\ FrontendLayers(nodeEnv, LoadedRef("noexport"), o)
              = FrontendLayers(nodeEnv, LoadedRef("missing"), o)
    /\ (pc = "rejected" \/ exitCode # -1) => ListenFailed

\* all six modules loaded without their exports; the server listens in
\* fallback mode with the inline page, as with all six missing
C16_Witness ==
    /\ \A m \in Modules : LoadedWithoutExport(m)
    /\ serverState = "listening"
    /\ ~mongoConnected
    /\ connectCalls = 0
    /\ HasLayer("fallback503")
    /\ Strategies = {"inline"}
    /\ regLog = <<>>

\* C17: a POST whose body lacks type, description or location is answered
\* 400 with an error body before EvidenceCRUD.create is reached, and the
\* collection is as it was; every handler call ends in exactly one response,
\* whatever was thrown inside it is answered 409 or 500, every 4xx/5xx
\* response carries an error message, and the process keeps serving.
C17_ValidationAndErrorMapping ==
    /\ [](\A i \in 1..Len(history) :
            /\ history[i].status \in {200, 201, 400, 404, 409, 500}
            /\ (history[i].op = "create" /\ ~history[i].complete) =>
                  /\ history[i].status = 400
                  /\ history[i].error = "Missing required fields"
                  /\ history[i].thrown = "none"
                  /\ history[i].id = NoId
            /\ history[i].thrown # "none" => history[i].status \in {409, 500}
            /\ history[i].status >= 400 <=> history[i].error # "")
    /\ [](Running /\ serverState = "listening")
    /\ [][history' # history =>
            /\ Len(history') = Len(history) + 1
            /\ SubSeq(history', 1, Len(history)) = history]_vars
    /\ [][(history' # history /\ ~history'[Len(history')].complete) =>
            UNCHANGED <<existing, evidence, nextId>>]_vars

\* a document is stored, a DELETE with a malformed id was answered 500, and
\* a POST without all required fields was answered 400 with the document
\* still there
C17_Witness ==
    /\ Len(history) = 3
    /\ history[1].status = 201
    /\ history[2].op = "delete" /\ history[2].thrown = "BSONError"
    /\ history[3].op = "create" /\ ~history[3].complete /\ history[3].status = 400
    /\ Len(evidence) = 1

----------------------------------------------------------------------------
(* Claims about every request being answered *)

\* C18 as stated: under every route topology startup can assemble, a GET
\* request is answered: no handler on its chain takes it and then neither
\* responds nor passes it on.
C18_Original ==
    (lastReq # NoRequest /\ lastReq.method = "GET") => lastResp.body # "hang"

----------------------------------------------------------------------------
(* Claims about evidence numbers under concurrent and sequential creation *)

\* caller p's insertOne stores a document in this step
Inserts(p) ==
    /\ creating[p].at = "insert"
    /\ creating'[p].at = "idle"
    /\ Len(evidence') = Len(evidence) + 1

\* two stored documents carry the same generated number
DuplicateNumber ==
    \E i, j \in 1..Len(evidence) :
        /\ i # j
        /\ WellFormed(evidence[i].evidenceNumber)
        /\ evidence[i].evidenceNumber = evidence[j].evidenceNumber

\* C15: numbering is not atomic.  A caller holds the number built from the
\* count it read; its insert stores that number whatever was inserted in
\* between; and when two callers without a supplied number have read the
\* same count and one inserts, it stores the very number the other one
\* still holds and will store.
C15_CountNotReadAgainAtInsert ==
    /\ [](\A p \in Callers :
            (Busy(p) /\ creating[p].auto) =>
                creating[p].number = EvidenceNumber(creating[p].count))
    /\ [][\A p \in Callers :
            Inserts(p) =>
                evidence'[Len(evidence')].evidenceNumber = creating[p].number]_vars
    /\ [][\A p, q \in Callers :
            (/\ p # q
             /\ Inserts(p)
             /\ Busy(q)
             /\ creating[p].auto /\ creating[q].auto
             /\ creating[p].count = creating[q].count) =>
                /\ creating'[q] = creating[q]
                /\ evidence'[Len(evidence')].evidenceNumber = creating[q].number]_vars

\* both callers read the count of the empty collection before either
\* inserted: the two documents stored first both carry EV-000001
C15_Witness ==
    /\ existing = 0
    /\ Len(evidence) = 2
    /\ evidence[1] = [_id |-> 1, evidenceNumber |-> EvidenceNumber(0)]
    /\ evidence[2] = [_id |-> 2, evidenceNumber |-> EvidenceNumber(0)]
    /\ NoneBusy

\* C19 as stated: when create calls without a supplied number and delete
\* calls run one after the other, no two documents stored at the same time
\* carry the same generated number.
C19_Original == ~DuplicateNumber

====
